---- MODULE Spec2Model ----
(***************************************************************************)
(* Widget expansion, overlay and dashboard selection of the finance        *)
(* dashboard application (MarketScreen, DashboardScreen, WidgetScreen and  *)
(* the navigators that host them).                                         *)
(*                                                                         *)
(* Ids are positive integers; NoId stands for null / undefined / ''.       *)
(* An event handler is one action: the state updates it makes, the render  *)
(* that commits them and the effects that render schedules.                *)
(***************************************************************************)
EXTENDS Integers, Sequences, FiniteSets, TLC

NoId == 0

\* ---- bounds of the modelled configuration ------------------------------
NumDash == 2
NumWidgets == 4

DashIds == 1..NumDash
\* a stored preference may name a dashboard that no longer exists
GhostDash == NumDash + 1

\* ---- widget registry ----------------------------------------------------
widgetComponentRegistry == {"TotalBalanceCard", "PortfolioCard", "StockPriceCard"}

getWidgetComponent(type) ==
    IF type \in widgetComponentRegistry THEN type ELSE "undefined"

\* data: 0 models an absent (falsy) payload
validateWidget(widget) ==
    LET widgetBuilder == getWidgetComponent(widget.type) IN
    IF widgetBuilder = "undefined"
    THEN [isValid |-> FALSE, builder |-> "undefined", data |-> 0]
    ELSE IF widget.data = 0
         THEN [isValid |-> FALSE, builder |-> "undefined", data |-> 0]
         ELSE [isValid |-> TRUE, builder |-> widgetBuilder, data |-> widget.data]

\* ---- dashboards.json ----------------------------------------------------
\* Widget ids are unique within a dashboard and partly reused across
\* dashboards; some entries name an unregistered type or lack a payload.
RegisteredTypeAt(i) ==
    IF i % 3 = 0 THEN "TotalBalanceCard"
    ELSE IF i % 3 = 1 THEN "StockPriceCard"
    ELSE "PortfolioCard"

TypeAt(d, i) == IF (d + i) % 4 = 0 THEN "UnknownCard" ELSE RegisteredTypeAt(i)

DataAt(d, i) == IF (d + 2 * i) % 5 = 0 THEN 0 ELSE 10 * d + i

WidgetAt(d, i) == [id |-> i + (d - 1), type |-> TypeAt(d, i), data |-> DataAt(d, i)]

\* def = index of the dashboard marked isDefault, 0 when none is
MkConfig(def) ==
    [d \in DashIds |->
        [id |-> d, isDefault |-> (d = def),
         widgets |-> [i \in 1..NumWidgets |-> WidgetAt(d, i)]]]

Configs == {MkConfig(def) : def \in 0..NumDash}

\* widgetConfig of the widget registry, used by WidgetScreen
widgetConfig ==
    << [id |-> 1, type |-> "StockPriceCard", data |-> 1],
       [id |-> 2, type |-> "StockPriceCard", data |-> 2],
       [id |-> 3, type |-> "TotalBalanceCard", data |-> 3],
       [id |-> 4, type |-> "PortfolioCard", data |-> 4] >>

widgetBuilderRegistry == {"TotalBalanceCard", "PortfolioCard", "StockPriceCard"}

getWidgetBuilder(type) ==
    IF type \in widgetBuilderRegistry THEN type ELSE "undefined"

\* ---- screen instances ---------------------------------------------------
\* kind "Dashboard" is the DashboardScreen whose cards own their overlay,
\* kind "DashboardOverlay" the DashboardScreen that renders the overlay itself;
\* param is the dashboardId route parameter (NoId when absent)
Market == [kind |-> "Market", param |-> NoId]
WidgetScr == [kind |-> "Widget", param |-> NoId]
DashboardInst(p) == [kind |-> "Dashboard", param |-> p]
DashboardOverlayInst(p) == [kind |-> "DashboardOverlay", param |-> p]

Instances ==
    {Market, WidgetScr}
    \cup {DashboardInst(p) : p \in 0..GhostDash}
    \cup {DashboardOverlayInst(p) : p \in 0..GhostDash}

\* useState / useRef initial values of a screen
Mounted ==
    [mounted |-> TRUE, expandedId |-> NoId, modalVisible |-> FALSE,
     lastExpandedId |-> NoId, anim |-> "none", collapseCb |-> FALSE]

Unmounted == [Mounted EXCEPT !.mounted = FALSE]

VARIABLES
    dashboards,          \* dashboardsConfig.dashboards (immutable at runtime)
    ui,                  \* per screen instance: expandedId, modalVisible,
                         \* lastExpandedId, anim (state of the Animated values:
                         \* "none", "in", "out"), collapseCb (the callback of a
                         \* collapse animation is pending)
    focus,               \* the screen instance on screen
    \* MarketScreen
    selectedDashboardId, isLoading,
    loadPending,         \* AsyncStorage.getItem has not settled yet
    stored,              \* value under LAST_DASHBOARD_KEY
    pendingWrites,       \* AsyncStorage.setItem calls in flight
    \* observers
    taps,                \* the most recent consecutive expand taps on focus:
                         \* [w |-> widget tapped, pre |-> expandedId before]
    backResult,          \* what the last hardwareBackPress dispatch returned
    lateCallback,        \* the last step of a screen was a collapse callback
                         \* that ran while a widget was expanded
    userExpanded,        \* the widget entry the user expanded last on focus,
                         \* while its overlay may still be displayed
    \* one widget card
    prices,              \* the prices object of a stock payload: its entries
                         \* [date, price] in insertion order
    priceInfo,           \* what getPriceChange returned for it
    totalPages,          \* number of condensed pages of the card
    cardWidth,           \* CARD_WIDTH, the width of a page
    scrollX,             \* contentOffset.x of the last scroll event
    currentPage,         \* useState(0) of the paginated card
    \* the two ways of writing handleExpand, given the same taps
    closureState,        \* expandedId of a screen whose handleExpand reads the
                         \* expandedId of the render that created it
    closureCaptured,     \* that expandedId: the state at the last render
    updaterState,        \* expandedId of a screen whose handleExpand passes a
                         \* function of the current state to setExpandedId
    \* ScreenLayout
    overlays,            \* useState({}): per overlay id its content, "absent"
                         \* for an id that is no key of the object
    lastContent          \* observer: per overlay id the content of the most
                         \* recent setOverlay call, "none" before the first

marketVars == <<selectedDashboardId, isLoading, loadPending, stored, pendingWrites>>
obsVars == <<taps, backResult, lateCallback, userExpanded>>
tapVars == <<closureState, closureCaptured, updaterState>>
layoutVars == <<overlays, lastContent>>
cardVars ==
    <<prices, priceInfo, totalPages, cardWidth, scrollX, currentPage, tapVars,
      layoutVars>>
vars == <<dashboards, ui, focus, marketVars, obsVars, cardVars>>

\* ---- array helpers ------------------------------------------------------
\* Array.prototype.find: index of the first element satisfying the test, 0 if none
FindIndex(seq, Test(_)) ==
    IF \E i \in DOMAIN seq : Test(seq[i])
    THEN CHOOSE i \in DOMAIN seq :
            Test(seq[i]) /\ \A j \in DOMAIN seq : Test(seq[j]) => i <= j
    ELSE 0

Range(seq) == {seq[i] : i \in DOMAIN seq}

\* ---- which dashboard a screen shows -------------------------------------
\* MarketScreen: find by selectedDashboardId, else the first dashboard
selectedDashboard ==
    LET i == FindIndex(dashboards, LAMBDA d : d.id = selectedDashboardId) IN
    IF i # 0 THEN dashboards[i] ELSE dashboards[1]

\* DashboardScreen: route param, else the default dashboard, else the first
dashboardId(param) ==
    LET def == FindIndex(dashboards, LAMBDA d : d.isDefault) IN
    IF param # NoId THEN param
    ELSE IF def # 0 THEN dashboards[def].id
    ELSE dashboards[1].id

\* a lookup that falls back to the first dashboard
dashboard_FallbackFirst(param) ==
    LET found == FindIndex(dashboards, LAMBDA d : d.id = dashboardId(param)) IN
    IF found # 0 THEN found ELSE 1

\* index of the dashboard found for the route, 0 when there is none
dashboard(param) == FindIndex(dashboards, LAMBDA d : d.id = dashboardId(param))

\* the widget entries the screen maps over
WidgetsOf(i) ==
    IF i.kind = "Market" THEN selectedDashboard.widgets
    ELSE IF i.kind = "Widget" THEN widgetConfig
    ELSE IF dashboard(i.param) # 0 THEN dashboards[dashboard(i.param)].widgets
    ELSE <<>>

\* ---- rendering ----------------------------------------------------------
\* validateWidget(widget, widget.id) followed by the screen's test
IsRenderable(widget) ==
    LET validation == validateWidget(widget) IN
    ~(~validation.isValid \/ validation.builder = "undefined" \/ validation.data = 0)

\* the overlay based DashboardScreen tests the component and the data itself
IsRenderableDirect(widget) ==
    /\ getWidgetComponent(widget.type) # "undefined"
    /\ widget.data # 0

\* WidgetScreen only tests the builder
HasBuilder(widget) == getWidgetBuilder(widget.type) # "undefined"

\* every screen tests the builder only, as WidgetScreen does
Renders_BuilderOnly(i, widget) == HasBuilder(widget)

Renders(i, widget) ==
    IF i.kind = "Widget" THEN HasBuilder(widget)
    ELSE IF i.kind = "DashboardOverlay" THEN IsRenderableDirect(widget)
    ELSE IsRenderable(widget)

HasOverlay(i) == i.kind \in {"Market", "DashboardOverlay"}

\* a MarketScreen that renders its header with the dropdown while loading
RendersNothing_NoLoadingGate(i) ==
    \/ ~ui[i].mounted
    \/ i.kind \in {"Dashboard", "DashboardOverlay"} /\ dashboard(i.param) = 0

\* the screen returns before its widget list: MarketScreen while loading,
\* DashboardScreen when the dashboard is not found
RendersNothing(i) ==
    \/ ~ui[i].mounted
    \/ i.kind = "Market" /\ isLoading
    \/ i.kind \in {"Dashboard", "DashboardOverlay"} /\ dashboard(i.param) = 0

\* widgets.map(...): the entries that pass the test, in configuration
\* order (a null child renders nothing)
ListEntries(i) ==
    IF RendersNothing(i) THEN <<>>
    ELSE SelectSeq(WidgetsOf(i), LAMBDA w : Renders(i, w))

ListCards(i) ==
    LET entries == ListEntries(i) IN
    [n \in 1..Len(entries) |-> entries[n].id]

\* expanded={!!expandedId}: every card follows the screen's flag
ListCardExpanded_Any(i, widget) ==
    IF HasOverlay(i) THEN FALSE ELSE ui[i].expandedId # NoId

\* the expanded prop a list card is rendered with
ListCardExpanded(i, widget) ==
    IF HasOverlay(i) THEN FALSE ELSE ui[i].expandedId = widget.id

widgetIdToDisplay(i) ==
    IF ui[i].expandedId # NoId THEN ui[i].expandedId ELSE ui[i].lastExpandedId

\* index in the widget entries of displayWidget, 0 when undefined
displayWidget(i) ==
    FindIndex(WidgetsOf(i), LAMBDA w : w.id = widgetIdToDisplay(i))

OverlayVisible(i) == HasOverlay(i) /\ ~RendersNothing(i) /\ ui[i].modalVisible

\* id of the card rendered with expanded={true} inside the overlay, NoId if none
OverlayCard(i) ==
    LET widgets == WidgetsOf(i)
        shown == displayWidget(i)
    IN  IF OverlayVisible(i) /\ shown # 0 /\ Renders(i, widgets[shown])
        THEN widgets[shown].id
        ELSE NoId

\* the cards of screen i rendered in the expanded role, in render order
ExpandedCards(i) ==
    LET inList == SelectSeq(ListEntries(i), LAMBDA w : ListCardExpanded(i, w))
        inOverlay == OverlayCard(i)
    IN  [n \in 1..Len(inList) |-> inList[n].id]
        \o (IF inOverlay # NoId THEN <<inOverlay>> ELSE <<>>)

\* ---- the expand/collapse effect of the overlay screens ------------------
\* an effect that hides the overlay at once instead of animating it out
AnimateEffect_HideAtOnce(st) ==
    IF st.expandedId # NoId
    THEN [st EXCEPT !.lastExpandedId = st.expandedId, !.modalVisible = TRUE,
                    !.anim = "in"]
    ELSE IF st.modalVisible
         THEN [st EXCEPT !.modalVisible = FALSE, !.anim = "none"]
         ELSE st

\* a collapse animation started without its completion callback
AnimateEffect_NoCallback(st) ==
    IF st.expandedId # NoId
    THEN [st EXCEPT !.lastExpandedId = st.expandedId, !.modalVisible = TRUE,
                    !.anim = "in"]
    ELSE IF st.modalVisible
         THEN [st EXCEPT !.anim = "out"]
         ELSE st

AnimateEffect(st) ==
    IF st.expandedId # NoId
    THEN [st EXCEPT !.lastExpandedId = st.expandedId, !.modalVisible = TRUE,
                    !.anim = "in"]
    ELSE IF st.modalVisible
         THEN [st EXCEPT !.anim = "out", !.collapseCb = TRUE]
         ELSE st

\* a dependency list without modalVisible
EffectDeps_ExpandedIdOnly(st) == <<st.expandedId>>

EffectDeps(st) == <<st.expandedId, st.modalVisible>>

\* render the updated state and run the effect while its dependencies change
RECURSIVE Commit(_, _)
Commit(old, new) ==
    IF EffectDeps(new) = EffectDeps(old) THEN new
    ELSE Commit(new, AnimateEffect(new))

\* setExpandedId(id) on screen i, rendered
SetExpandedId(i, id) ==
    LET new == [ui[i] EXCEPT !.expandedId = id] IN
    IF HasOverlay(i) THEN Commit(ui[i], new) ELSE new

\* ---- handlers -----------------------------------------------------------
\* push semantics: a tap always expands the tapped widget
handleExpand_Push(current, widgetId) == widgetId

\* a tap while a widget is expanded only collapses it
handleExpand_CollapseFirst(current, widgetId) ==
    IF current # NoId THEN NoId ELSE widgetId

handleExpand(current, widgetId) == IF current = widgetId THEN NoId ELSE widgetId

\* the cards on screen whose expand control calls handleExpand
Tappable(i) == (Range(ListCards(i)) \cup {OverlayCard(i)}) \ {NoId}

\* the screens without widgets have no expand control
TappableOnFocus == IF focus \in Instances THEN Tappable(focus) ELSE {}

\* no widget entry
NoEntry == [id |-> NoId, type |-> "undefined", data |-> 0]

\* the entry of the screen's dashboard whose card has id w
EntryOnScreen(i, w) ==
    LET n == FindIndex(WidgetsOf(i), LAMBDA e : e.id = w) IN
    IF n # 0 THEN WidgetsOf(i)[n] ELSE NoEntry

\* taps keeps the last two expand taps
PushTap(t) ==
    IF Len(taps) < 2 THEN Append(taps, t) ELSE Append(Tail(taps), t)

ExpandTap(w) ==
    /\ w \in TappableOnFocus
    /\ ui' = [ui EXCEPT ![focus] =
                 SetExpandedId(focus, handleExpand(ui[focus].expandedId, w))]
    /\ taps' = PushTap([w |-> w, pre |-> ui[focus].expandedId])
    /\ lateCallback' = FALSE
    /\ userExpanded' = IF handleExpand(ui[focus].expandedId, w) # NoId
                       THEN EntryOnScreen(focus, w) ELSE userExpanded
    /\ backResult' = "none"
    /\ UNCHANGED <<cardVars, dashboards, focus, marketVars>>

\* a listener that never intercepts
BackListener_Never(i) == FALSE

\* the hardwareBackPress listener of a screen: TRUE when it consumes the press
BackListener(i) == ui[i].expandedId # NoId

\* hardwareBackPress: the listeners of the mounted screens are called until
\* one returns true
BackPress ==
    /\ \/ \E i \in Instances :
            /\ ui[i].mounted
            /\ BackListener(i)
            /\ ui' = [ui EXCEPT ![i] = SetExpandedId(i, NoId)]
            /\ backResult' = "consumed"
       \/ /\ \A i \in Instances : ui[i].mounted => ~BackListener(i)
          /\ ui' = ui
          /\ backResult' = "passed"
    /\ taps' = <<>>
    /\ lateCallback' = FALSE
    /\ UNCHANGED <<cardVars, dashboards, focus, marketVars, userExpanded>>

\* a selection that leaves the expanded widget alone
handleDashboardSelect_KeepExpanded(d) ==
    /\ focus = Market
    /\ ~RendersNothing(Market)
    /\ d \in {dashboards[n].id : n \in DOMAIN dashboards}
    /\ selectedDashboardId' = d
    /\ pendingWrites' = pendingWrites \cup {d}
    /\ taps' = <<>>
    /\ lateCallback' = FALSE
    /\ backResult' = "none"
    /\ UNCHANGED <<cardVars, dashboards, ui, focus, isLoading, loadPending, stored,
                   userExpanded>>

handleDashboardSelect(d) ==
    /\ focus = Market
    /\ ~RendersNothing(Market)
    /\ d \in {dashboards[n].id : n \in DOMAIN dashboards}
    /\ selectedDashboardId' = d
    /\ ui' = [ui EXCEPT ![Market] =
                 IF ui[Market].expandedId # NoId
                 THEN SetExpandedId(Market, NoId)
                 ELSE ui[Market]]
    /\ pendingWrites' = pendingWrites \cup {d}
    /\ taps' = <<>>
    /\ lateCallback' = FALSE
    /\ backResult' = "none"
    /\ UNCHANGED <<cardVars, dashboards, focus, isLoading, loadPending, stored,
                   userExpanded>>

\* a failed write that takes the selection back to the stored one
WriteSettles_Rollback(d, ok) ==
    /\ d \in pendingWrites
    /\ pendingWrites' = pendingWrites \ {d}
    /\ stored' = IF ok THEN d ELSE stored
    /\ selectedDashboardId' =
          IF ok THEN selectedDashboardId
          ELSE IF stored # NoId THEN stored ELSE dashboards[1].id
    /\ UNCHANGED <<cardVars, dashboards, ui, focus, isLoading, loadPending, obsVars>>

\* AsyncStorage.setItem settles: the value is stored, or the write fails and
\* the error is logged
WriteSettles(d, ok) ==
    /\ d \in pendingWrites
    /\ pendingWrites' = pendingWrites \ {d}
    /\ stored' = IF ok THEN d ELSE stored
    /\ UNCHANGED <<cardVars, dashboards, ui, focus, selectedDashboardId, isLoading,
                   loadPending, obsVars>>

\* a read that applies the stored id without looking it up
loadLastDashboard_NoExistsCheck(ok) ==
    /\ ui[Market].mounted
    /\ loadPending
    /\ loadPending' = FALSE
    /\ selectedDashboardId' =
          IF ok /\ stored # NoId THEN stored ELSE selectedDashboardId
    /\ isLoading' = FALSE
    /\ UNCHANGED <<cardVars, dashboards, ui, focus, stored, pendingWrites, obsVars>>

\* AsyncStorage.getItem settles
loadLastDashboard(ok) ==
    /\ ui[Market].mounted
    /\ loadPending
    /\ loadPending' = FALSE
    /\ selectedDashboardId' =
          IF ok /\ stored # NoId /\ \E n \in DOMAIN dashboards : dashboards[n].id = stored
          THEN stored ELSE selectedDashboardId
    /\ isLoading' = FALSE
    /\ UNCHANGED <<cardVars, dashboards, ui, focus, stored, pendingWrites, obsVars>>

\* the expand animation reaches its end values (start() without a callback)
ExpandAnimationEnds(i) ==
    /\ ui[i].mounted
    /\ ui[i].anim = "in"
    /\ ui' = [ui EXCEPT ![i].anim = "none"]
    /\ UNCHANGED <<cardVars, dashboards, focus, marketVars, obsVars>>

\* a callback that hides the overlay but keeps lastExpandedId
CollapseCallback_KeepLast(i) ==
    /\ ui[i].mounted
    /\ ui[i].collapseCb
    /\ ui' = [ui EXCEPT ![i] =
                 Commit(ui[i],
                        [ui[i] EXCEPT !.modalVisible = FALSE,
                                      !.collapseCb = FALSE,
                                      !.anim = IF ui[i].anim = "out" THEN "none"
                                               ELSE ui[i].anim])]
    /\ lateCallback' = (ui[i].expandedId # NoId)
    /\ userExpanded' = IF i = focus /\ ~ui'[i].modalVisible THEN NoEntry
                       ELSE userExpanded
    /\ UNCHANGED <<cardVars, dashboards, focus, marketVars, taps, backResult>>

\* the callback given to start() of the collapse animation runs
CollapseCallback(i) ==
    /\ ui[i].mounted
    /\ ui[i].collapseCb
    /\ ui' = [ui EXCEPT ![i] =
                 Commit(ui[i],
                        [ui[i] EXCEPT !.modalVisible = FALSE,
                                      !.lastExpandedId = NoId,
                                      !.collapseCb = FALSE,
                                      !.anim = IF ui[i].anim = "out" THEN "none"
                                               ELSE ui[i].anim])]
    /\ lateCallback' = (ui[i].expandedId # NoId)
    /\ userExpanded' = IF i = focus /\ ~ui'[i].modalVisible THEN NoEntry
                       ELSE userExpanded
    /\ UNCHANGED <<cardVars, dashboards, focus, marketVars, taps, backResult>>

\* ---- one screen, mounted on its own -------------------------------------
MarketInitial ==
    /\ selectedDashboardId = dashboards[1].id
    /\ isLoading = TRUE
    /\ pendingWrites = {}

\* the card has not computed a price change
NoInfo == [version |-> "none"]

\* the ids under which cards register an overlay
OverlayIds == {"card-1", "card-2", "card-3"}

\* a ScreenLayout without overlays
LayoutIdle ==
    /\ overlays = [id \in OverlayIds |-> "absent"]
    /\ lastContent = [id \in OverlayIds |-> "none"]

\* no taps are given to the two handlers
TapsIdle ==
    /\ closureState = NoId
    /\ closureCaptured = NoId
    /\ updaterState = NoId

\* no card is looked at on its own
CardIdle ==
    /\ prices = <<>>
    /\ priceInfo = NoInfo
    /\ totalPages = 0
    /\ cardWidth = 1
    /\ scrollX = 0
    /\ currentPage = 0
    /\ TapsIdle
    /\ LayoutIdle

Init ==
    /\ dashboards \in Configs
    /\ focus \in Instances
    /\ ui = [i \in Instances |-> IF i = focus THEN Mounted ELSE Unmounted]
    /\ MarketInitial
    /\ CardIdle
    /\ loadPending = (focus = Market)
    /\ stored \in IF focus = Market THEN {NoId} \cup DashIds \cup {GhostDash} ELSE {NoId}
    /\ taps = <<>>
    /\ backResult = "none"
    /\ lateCallback = FALSE
    /\ userExpanded = NoEntry

ScreenNext ==
    \/ \E w \in TappableOnFocus : ExpandTap(w)
    \/ BackPress
    \/ \E d \in DashIds : handleDashboardSelect(d)
    \/ \E d \in DashIds, ok \in BOOLEAN : WriteSettles(d, ok)
    \/ \E ok \in BOOLEAN : loadLastDashboard(ok)
    \/ \E i \in Instances : ExpandAnimationEnds(i)
    \/ \E i \in Instances : CollapseCallback(i)

Next == ScreenNext

Spec == Init /\ [][Next]_vars

\* ---- the screens under AppNavigator ---------------------------------------
\* the tab screens without widgets
HomeTab == [kind |-> "Home", param |-> NoId]
ChatTab == [kind |-> "Chat", param |-> NoId]
AccountTab == [kind |-> "Account", param |-> NoId]

\* MainTabs (Home, Market, Chat, Account) and one drawer screen per dashboard
AppRoutes ==
    {HomeTab, Market, ChatTab, AccountTab} \cup {DashboardInst(d) : d \in DashIds}

\* a navigator that unmounts the screen that loses the focus
Navigate_Unmount(r) ==
    /\ r # focus
    /\ focus' = r
    /\ ui' = [i \in Instances |->
                 IF i = r THEN (IF ui[r].mounted THEN ui[r] ELSE Mounted)
                 ELSE IF i = focus THEN Unmounted
                 ELSE ui[i]]
    /\ taps' = <<>>
    /\ lateCallback' = FALSE
    /\ userExpanded' = NoEntry
    /\ backResult' = "none"
    /\ UNCHANGED <<cardVars, dashboards, marketVars>>

\* navigation.navigate(route): the route gets the focus and is mounted on its
\* first visit; the screens already mounted stay mounted
Navigate(r) ==
    /\ r # focus
    /\ focus' = r
    /\ ui' = IF r \in Instances /\ ~ui[r].mounted
             THEN [ui EXCEPT ![r] = Mounted] ELSE ui
    /\ taps' = <<>>
    /\ lateCallback' = FALSE
    /\ userExpanded' = NoEntry
    /\ backResult' = "none"
    /\ UNCHANGED <<cardVars, dashboards, marketVars>>

\* initialRouteName "MainTabs", whose initialRouteName is "Market"
AppInit ==
    /\ dashboards = MkConfig(1)
    /\ focus = Market
    /\ ui = [i \in Instances |-> IF i = Market THEN Mounted ELSE Unmounted]
    /\ MarketInitial
    /\ CardIdle
    /\ loadPending = TRUE
    /\ stored = NoId
    /\ taps = <<>>
    /\ backResult = "none"
    /\ lateCallback = FALSE
    /\ userExpanded = NoEntry

AppNext ==
    \/ ScreenNext
    \/ \E r \in AppRoutes : Navigate(r)

SpecApp == AppInit /\ [][AppNext]_vars

\* ---- properties ---------------------------------------------------------
LastTap == taps[Len(taps)]
PrevTap == taps[Len(taps) - 1]

\* C1: on every screen at most one card is rendered in the expanded role, and
\* after an expand tap on widget A followed by an expand tap on a different
\* widget B exactly B is expanded
C1_AtMostOneExpanded ==
    /\ \A i \in Instances : Len(ExpandedCards(i)) <= 1
    /\ (Len(taps) >= 2 /\ PrevTap.w # LastTap.w) =>
          /\ ui[focus].expandedId = LastTap.w
          /\ ExpandedCards(focus) = <<LastTap.w>>

C1_Witness ==
    /\ Len(taps) >= 2
    /\ PrevTap.w # LastTap.w
    /\ PrevTap.pre = NoId
    /\ LastTap.pre = PrevTap.w
    /\ ExpandedCards(focus) = <<LastTap.w>>

\* C2: two consecutive expand taps on the same widget, starting with nothing
\* expanded, leave expandedId null again
C2_ToggleTwice ==
    (Len(taps) >= 2 /\ PrevTap.w = LastTap.w /\ PrevTap.pre = NoId) =>
        ui[focus].expandedId = NoId

C2_Witness ==
    /\ focus = WidgetScr
    /\ Len(taps) >= 2
    /\ PrevTap.w = LastTap.w
    /\ PrevTap.pre = NoId
    /\ LastTap.pre = LastTap.w
    /\ ui[focus].expandedId = NoId

\* C3: a hardware back press while a widget is expanded collapses it and is
\* consumed; while no widget is expanded it is not consumed and changes nothing
C3_BackPress ==
    [][BackPress =>
         /\ ui[focus].expandedId # NoId =>
               (ui'[focus].expandedId = NoId /\ backResult' = "consumed")
         /\ ui[focus].expandedId = NoId =>
               (ui' = ui /\ backResult' = "passed")]_vars

C3_Witness ==
    /\ backResult = "consumed"
    /\ ui[focus].expandedId = NoId
    /\ ui[focus].modalVisible

\* ---- the lifecycle of an overlay screen ------------------------------------
Phase(i) ==
    IF ui[i].expandedId # NoId
    THEN (IF ui[i].anim = "in" THEN "Expanding" ELSE "Expanded")
    ELSE (IF ui[i].modalVisible THEN "Collapsing" ELSE "Condensed")

OverlayScreens == {i \in Instances : HasOverlay(i)}

AnExpandTap == \E w \in TappableOnFocus : ExpandTap(w)
ADashboardSelect == \E d \in DashIds : handleDashboardSelect(d)

\* C4 as stated: the lifecycle starts in Condensed and takes only the four
\* transitions Condensed -> Expanding -> Expanded -> Collapsing -> Condensed
C4_FourTransitionsOnly ==
    /\ \A i \in OverlayScreens : Phase(i) = "Condensed"
    /\ [][\A i \in OverlayScreens :
            Phase(i)' # Phase(i) =>
               \/ Phase(i) = "Condensed" /\ Phase(i)' = "Expanding" /\ AnExpandTap
               \/ Phase(i) = "Expanding" /\ Phase(i)' = "Expanded"
                    /\ ExpandAnimationEnds(i)
               \/ Phase(i) = "Expanded" /\ Phase(i)' = "Collapsing"
                    /\ (BackPress \/ AnExpandTap)
               \/ Phase(i) = "Collapsing" /\ Phase(i)' = "Condensed"
                    /\ CollapseCallback(i)]_vars

\* C4, amended: the lifecycle starts in Condensed and every change of phase is
\* one of the four transitions or one that an event during an animation
\* causes: Expanding -> Collapsing, Collapsing -> Expanding, Expanded ->
\* Expanding; a dashboard selection collapses like a close tap
C4_Lifecycle ==
    /\ \A i \in OverlayScreens : Phase(i) = "Condensed"
    /\ [][\A i \in OverlayScreens :
            Phase(i)' # Phase(i) =>
               \/ Phase(i) = "Condensed" /\ Phase(i)' = "Expanding" /\ AnExpandTap
               \/ Phase(i) = "Expanding" /\ Phase(i)' = "Expanded"
                    /\ ExpandAnimationEnds(i)
               \/ Phase(i) \in {"Expanding", "Expanded"} /\ Phase(i)' = "Collapsing"
                    /\ (BackPress \/ ADashboardSelect \/ AnExpandTap)
               \/ Phase(i) = "Collapsing" /\ Phase(i)' = "Condensed"
                    /\ CollapseCallback(i)
               \/ Phase(i) = "Collapsing" /\ Phase(i)' = "Expanding" /\ AnExpandTap
               \/ Phase(i) = "Expanded" /\ Phase(i)' = "Expanding"
                    /\ (CollapseCallback(i) \/ AnExpandTap)]_vars

\* a widget expanded again while the callback of the collapse is pending
C4_Witness ==
    /\ HasOverlay(focus)
    /\ Phase(focus) = "Expanding"
    /\ ui[focus].collapseCb
    /\ Len(taps) >= 2

\* C5 as stated: the overlay follows the logical state without waiting for an
\* animation callback: condensed means the overlay is not shown, expanded
\* means the widget is shown expanded
C5_OverlayFollowsState ==
    \A i \in OverlayScreens :
        ui[i].mounted =>
           /\ ui[i].expandedId = NoId => ~OverlayVisible(i)
           /\ ui[i].expandedId # NoId => OverlayCard(i) = ui[i].expandedId

\* C6 as stated: no step shows another dashboard's widget list while the
\* overlay is still visible
C6_SwitchHidesOverlay ==
    [][selectedDashboardId' # selectedDashboardId => ~OverlayVisible(Market)']_vars

\* C7 as stated: expandedId never goes from one widget directly to another
C7_CollapseBetween ==
    [][\A i \in Instances :
          ui[i].expandedId # NoId => ui'[i].expandedId \in {NoId, ui[i].expandedId}]_vars

\* C7, amended: an expand tap on B while A is expanded replaces A by B in one
\* step; from then on B and only B is in the expanded role
C7_Replace ==
    (Len(taps) >= 1 /\ LastTap.pre \notin {NoId, LastTap.w}) =>
        /\ ui[focus].expandedId = LastTap.w
        /\ ExpandedCards(focus) = <<LastTap.w>>
        /\ LastTap.pre \notin Range(ExpandedCards(focus))

C7_Witness ==
    /\ focus = DashboardOverlayInst(1)
    /\ Len(taps) >= 1
    /\ LastTap.pre \notin {NoId, LastTap.w}
    /\ ExpandedCards(focus) = <<LastTap.w>>

\* C8 as stated: a screen that comes back on screen has no widget expanded
C8_ClearedOnReturn ==
    [][(focus' # focus /\ focus' \in Instances) => ui'[focus'].expandedId = NoId]_vars

\* C8, amended: navigation leaves the expansion state of every mounted screen
\* unchanged; a screen mounted by the navigation starts with nothing expanded
C8_PreservedAcrossNavigation ==
    [][focus' # focus =>
          \A i \in Instances :
             /\ ui[i].mounted => ui'[i] = ui[i]
             /\ (~ui[i].mounted /\ ui'[i].mounted) => ui'[i].expandedId = NoId]_vars

\* away from MarketScreen while its widget is still expanded
C8_Witness ==
    /\ focus = ChatTab
    /\ ui[Market].expandedId # NoId
    /\ ui[DashboardInst(1)].mounted
    /\ ui[DashboardInst(1)].expandedId # NoId

\* ---- rendering of arbitrary dashboard entries -----------------------------
EntryKinds == {"ok", "badType", "noData"}

EntryOf(i, kind) ==
    [id |-> i,
     type |-> IF kind = "badType" THEN "UnknownCard" ELSE RegisteredTypeAt(i),
     data |-> IF kind = "noData" THEN 0 ELSE 10 + i]

\* the first dashboard holds one entry of any kind per position
RenderConfigs ==
    {[MkConfig(1) EXCEPT ![1].widgets = [i \in 1..NumWidgets |-> EntryOf(i, kinds[i])]] :
        kinds \in [1..NumWidgets -> EntryKinds]}

RenderInit ==
    /\ dashboards \in RenderConfigs
    /\ focus \in {Market, DashboardInst(1), DashboardOverlayInst(NoId)}
    /\ ui = [i \in Instances |-> IF i = focus THEN Mounted ELSE Unmounted]
    /\ MarketInitial
    /\ CardIdle
    /\ loadPending = (focus = Market)
    /\ stored = NoId
    /\ taps = <<>>
    /\ backResult = "none"
    /\ lateCallback = FALSE
    /\ userExpanded = NoEntry

SpecRender == RenderInit /\ [][Next]_vars

DashboardScreens ==
    {i \in Instances : i.kind \in {"Market", "Dashboard", "DashboardOverlay"}}

ValidEntries(widgets) ==
    SelectSeq(widgets, LAMBDA w : w.type \in widgetComponentRegistry /\ w.data # 0)

\* C9: a screen renders exactly the entries whose type is registered and
\* whose payload is present, in configuration order, and each of them can be
\* expanded whatever the other entries are
C9_RendersValidEntries ==
    \A i \in DashboardScreens :
        ~RendersNothing(i) =>
           /\ LET valid == ValidEntries(WidgetsOf(i)) IN
                 ListCards(i) = [n \in 1..Len(valid) |-> valid[n].id]
           /\ (i = focus /\ Len(taps) >= 1 /\ LastTap.pre = NoId) =>
                 /\ LastTap.w \in Range(ListCards(i))
                 /\ ui[i].expandedId = LastTap.w
                 /\ ExpandedCards(i) = <<LastTap.w>>

\* an entry without payload and one of an unregistered type precede the
\* expanded widget
C9_Witness ==
    /\ focus = Market
    /\ ~RendersNothing(Market)
    /\ selectedDashboardId = 1
    /\ WidgetsOf(Market)[1].data = 0
    /\ WidgetsOf(Market)[2].type \notin widgetComponentRegistry
    /\ ListCards(Market) = <<3, 4>>
    /\ ExpandedCards(Market) = <<4>>

\* ---- the dashboard shown when none is specified --------------------------
DefaultOrFirst ==
    IF \E n \in DOMAIN dashboards : dashboards[n].isDefault
    THEN dashboards[CHOOSE n \in DOMAIN dashboards : dashboards[n].isDefault].id
    ELSE dashboards[1].id

\* C10 as stated: without route parameter (DashboardScreen) and without stored
\* preference (MarketScreen) the dashboard shown is the default one, else the
\* first
C10_DefaultShown ==
    /\ [](\A i \in Instances :
            (i.kind \in {"Dashboard", "DashboardOverlay"} /\ i.param = NoId
             /\ ui[i].mounted) =>
                /\ dashboard(i.param) # 0
                /\ dashboards[dashboard(i.param)].id = DefaultOrFirst)
    /\ [][((\E ok \in BOOLEAN : loadLastDashboard(ok)) /\ stored = NoId) =>
             selectedDashboard'.id = DefaultOrFirst]_vars

\* ---- the stored preference ------------------------------------------------
\* C11 as stated: MarketScreen shows its widget list in every state in which
\* the read of the stored preference is still pending
C11_ReadNeverBlocks ==
    (ui[Market].mounted /\ loadPending) =>
        (~RendersNothing(Market) /\ ListCards(Market) # <<>>)

Dates == {<<0, 1>>, <<0, 2>>, <<1, 0>>, <<1, 1>>}

\* no quotient of these prices lies on, or within double precision of, a
\* rounding tie of toFixed(2)
PriceValues == {0, 3, 7, 100, 110}

MaxPoints == 3

RECURSIVE PriceMaps(_)
PriceMaps(n) ==
    IF n = 0 THEN {<<>>}
    ELSE PriceMaps(n - 1) \cup
         {Append(m, [date |-> d, price |-> v]) :
             m \in {q \in PriceMaps(n - 1) : Len(q) = n - 1},
             d \in Dates, v \in PriceValues}

\* an object holds a key once
DistinctKeys(obj) ==
    \A m, n \in 1..Len(obj) : obj[m].date = obj[n].date => m = n

\* the order of strings by code units, which sort() without comparator uses
RECURSIVE StrLess(_, _)
StrLess(a, b) ==
    IF a = <<>> THEN b # <<>>
    ELSE IF b = <<>> THEN FALSE
    ELSE IF Head(a) # Head(b) THEN Head(a) < Head(b)
    ELSE StrLess(Tail(a), Tail(b))

RECURSIVE SortInsert(_, _)
SortInsert(k, sorted) ==
    IF sorted = <<>> THEN <<k>>
    ELSE IF StrLess(k, Head(sorted)) THEN <<k>> \o sorted
    ELSE <<Head(sorted)>> \o SortInsert(k, Tail(sorted))

\* Array.prototype.sort()
RECURSIVE Sort(_)
Sort(keys) ==
    IF keys = <<>> THEN <<>> ELSE SortInsert(Head(keys), Sort(Tail(keys)))

\* Object.keys(obj): the keys in insertion order
ObjectKeys(obj) == [n \in 1..Len(obj) |-> obj[n].date]

\* obj[d]
Lookup(obj, d) == obj[CHOOSE n \in 1..Len(obj) : obj[n].date = d].price

\* the prices without sorting their keys
getPriceArray_Unsorted(p) == [n \in 1..Len(p) |-> p[n].price]

getPriceArray(p) ==
    LET sorted == Sort(ObjectKeys(p)) IN
    [n \in 1..Len(sorted) |-> Lookup(p, sorted[n])]

TwoDigits(n) == IF n < 10 THEN "0" \o ToString(n) ELSE ToString(n)

\* (num / den).toFixed(2) for num >= 0, den > 0: the n with n / 100 nearest to
\* the number, the larger n when two are as near
ToFixed2Pos(num, den) ==
    LET n == (200 * num + den) \div (2 * den) IN
    ToString(n \div 100) \o "." \o TwoDigits(n % 100)

\* a negative number is rendered as "-" and its magnitude
ToFixed2(num, den) ==
    IF num < 0 THEN "-" \o ToFixed2Pos(-num, den) ELSE ToFixed2Pos(num, den)

\* ((change / previous) * 100).toFixed(2); a division by zero gives an
\* infinity or NaN, which toFixed renders by name
PercentString(change, previous) ==
    IF previous = 0
    THEN (IF change > 0 THEN "Infinity"
          ELSE IF change < 0 THEN "-Infinity" ELSE "NaN")
    ELSE IF previous > 0 THEN ToFixed2(100 * change, previous)
    ELSE ToFixed2(-100 * change, -previous)

NeutralChange ==
    [current |-> 0, previous |-> 0, change |-> 0, changePercent |-> "0.00",
     isPositive |-> TRUE, divided |-> FALSE, divisor |-> 0]

\* divided / divisor record the division the call made
ChangeOf(arr) ==
    LET current == arr[Len(arr)]
        previous == arr[1]
        change == current - previous
    IN  [current |-> current, previous |-> previous, change |-> change,
         changePercent |-> PercentString(change, previous),
         isPositive |-> (change >= 0), divided |-> TRUE, divisor |-> previous]

\* getPriceChange of the builder based StockPriceCard
getPriceChange(p) ==
    LET arr == getPriceArray(p) IN
    IF Len(arr) < 2 THEN NeutralChange ELSE ChangeOf(arr)

\* getPriceChange of the component based StockPriceCard
getPriceChangeComponent(p) ==
    LET priceArray == getPriceArray(p) IN
    IF Len(priceArray) = 0 THEN NeutralChange ELSE ChangeOf(priceArray)

CardVersions == {"builder", "component"}

\* the card is rendered and computes the price change of its payload
StockPriceCard(version) ==
    /\ priceInfo.version = "none"
    /\ priceInfo' = [version |-> version,
                     info |-> IF version = "builder" THEN getPriceChange(prices)
                              ELSE getPriceChangeComponent(prices)]
    /\ UNCHANGED <<dashboards, ui, focus, marketVars, obsVars, prices,
                   totalPages, cardWidth, scrollX, currentPage, tapVars,
                   layoutVars>>

\* a stock payload of any prices, no screen mounted
PriceInit ==
    /\ dashboards = MkConfig(1)
    /\ focus = Market
    /\ ui = [i \in Instances |-> Unmounted]
    /\ MarketInitial
    /\ loadPending = FALSE
    /\ stored = NoId
    /\ taps = <<>>
    /\ backResult = "none"
    /\ lateCallback = FALSE
    /\ userExpanded = NoEntry
    /\ prices \in {m \in PriceMaps(MaxPoints) : DistinctKeys(m)}
    /\ priceInfo = NoInfo
    /\ totalPages = 0
    /\ cardWidth = 1
    /\ scrollX = 0
    /\ currentPage = 0
    /\ TapsIdle
    /\ LayoutIdle

\* ---- StockPriceCard: the charts -------------------------------------------
\* a number: a quotient of integers, or NaN (0 / 0)
Quotient(num, den) ==
    IF den = 0 THEN [nan |-> TRUE, num |-> 0, den |-> 1]
    ELSE [nan |-> FALSE, num |-> num, den |-> den]

RECURSIVE SeqSum(_)
SeqSum(arr) == IF arr = <<>> THEN 0 ELSE Head(arr) + SeqSum(Tail(arr))

\* Math.max(...arr) and Math.min(...arr) of a non-empty array
MathMax(arr) == CHOOSE v \in Range(arr) : \A u \in Range(arr) : u <= v
MathMin(arr) == CHOOSE v \in Range(arr) : \A u \in Range(arr) : v <= u

\* The render of AnimatedPriceChart: threw tells whether it ended in a
\* TypeError, divisors are the divisors of its divisions, points its [x, y]
\* pairs. The keys are compared with localeCompare, which orders date keys
\* as sort() does. Of no prices the maximum is -Infinity, the range is
\* -Infinity and there is no last point, whose [0] the marker reads.
AnimatedPriceChart(p) ==
    LET priceArray == getPriceArray(p)
        n == Len(priceArray)
        width == 300
        height == 140
        padding == 12
    IN  IF n = 0
        THEN [threw |-> TRUE, divisors |-> {}, points |-> <<>>]
        ELSE LET max == MathMax(priceArray)
                 min == MathMin(priceArray)
                 range == IF max - min # 0 THEN max - min ELSE 1
                 points ==
                     [k \in 1..n |->
                         [x |-> Quotient((k - 1) * (width - padding * 2)
                                            + padding * (n - 1), n - 1),
                          y |-> Quotient((height - padding) * range
                                            - (priceArray[k] - min) * (height - padding * 2),
                                         range)]]
             IN  [threw |-> FALSE, divisors |-> {n - 1, range}, points |-> points]

\* renderExpandedView: the average divides by the length of the series, the
\* volatility does so for more than one price
renderExpandedView(p) ==
    LET arr == getPriceArray(p) IN
    [info |-> getPriceChange(p),
     avg |-> Quotient(SeqSum(arr), Len(arr)),
     divisors |-> {Len(arr)},
     chart |-> AnimatedPriceChart(p)]

\* PriceChart of the base components: nothing for fewer than two prices
PriceChart(p) ==
    LET priceArray == getPriceArray(p) IN
    IF Len(priceArray) < 2 THEN [rendered |-> FALSE, divisors |-> {}]
    ELSE LET priceRange ==
                 IF MathMax(priceArray) - MathMin(priceArray) # 0
                 THEN MathMax(priceArray) - MathMin(priceArray) ELSE 1
         IN  [rendered |-> TRUE, divisors |-> {Len(priceArray) - 1, priceRange}]

\* the builder is called and what it returns is rendered: the price page of
\* the condensed view with its chart, and the expanded view
buildStockPriceCard ==
    /\ priceInfo.version = "none"
    /\ priceInfo' = [version |-> "built",
                     info |-> getPriceChange(prices),
                     chart |-> AnimatedPriceChart(prices),
                     expanded |-> renderExpandedView(prices)]
    /\ UNCHANGED <<dashboards, ui, focus, marketVars, obsVars, prices,
                   totalPages, cardWidth, scrollX, currentPage, tapVars,
                   layoutVars>>

PriceNext ==
    \/ \E version \in CardVersions : StockPriceCard(version)
    \/ buildStockPriceCard

SpecPrice == PriceInit /\ [][PriceNext]_vars

\* the day a date key names
DayOf(d) == 10 * d[1] + d[2]

\* the price at the earliest and at the latest date
FirstByDate(p) ==
    p[CHOOSE n \in 1..Len(p) : \A m \in 1..Len(p) : DayOf(p[n].date) <= DayOf(p[m].date)].price
LastByDate(p) ==
    p[CHOOSE n \in 1..Len(p) : \A m \in 1..Len(p) : DayOf(p[n].date) >= DayOf(p[m].date)].price

C14_NeutralBelowTwo ==
    (priceInfo.version # "none" /\ Len(prices) < 2) =>
        /\ priceInfo.info.change = 0
        /\ priceInfo.info.changePercent = "0.00"
        /\ priceInfo.info.isPositive
        /\ ~(priceInfo.info.divided /\ priceInfo.info.divisor = 0)

\* ---- condensed and expanded view of a card --------------------------------
\* the widgets of which screen i renders a card in the condensed role
\* (expanded false, paging through its condensedPages)
CondensedCards(i) ==
    {w.id : w \in {e \in Range(ListEntries(i)) : ~ListCardExpanded(i, e)}}

\* C15 as stated: a screen that displays a widget expanded renders no
\* condensed card of that widget
C15_NoCondensedWhileExpanded ==
    \A i \in Instances :
        \A w \in Range(ExpandedCards(i)) : w \notin CondensedCards(i)

\* ---- pagination of a condensed card ---------------------------------------
MaxPages == 4

\* CARD_WIDTH = window width - 36, in a coarse unit of length
CardWidths == {4, 5, 7}

\* Math.floor(num / den)
MathFloor(num, den) == num \div den

\* Math.round(num / den) for den > 0: the nearest integer, the larger one when
\* two are as near
MathRound(num, den) == (2 * num + den) \div (2 * den)

\* the offsets a paging scroll view of n pages of width w reports: it rests
\* within its content and rubber-bands less than half a page past either end
ScrollOffsets(w, n) ==
    LET last == IF n > 1 THEN (n - 1) * w ELSE 0 IN
    {x \in (0 - w)..(last + w) : 2 * x > 0 - w /\ 2 * (x - last) < w}

handleScroll(offsetX) ==
    /\ offsetX \in ScrollOffsets(cardWidth, totalPages)
    /\ scrollX' = offsetX
    /\ currentPage' = MathRound(offsetX, cardWidth)
    /\ UNCHANGED <<dashboards, ui, focus, marketVars, obsVars, prices,
                   priceInfo, totalPages, cardWidth, tapVars, layoutVars>>

\* an indicator whose dots are counted from one
WidgetPageIndicator_OneBased(page, total) ==
    IF total <= 1 THEN [rendered |-> FALSE, dots |-> <<>>]
    ELSE [rendered |-> TRUE,
          dots |-> [index \in 1..total |-> (index = page)]]

\* the element returned: null, or one dot per page, dots[index + 1] telling
\* whether the dot of index is styled active
WidgetPageIndicator(page, total) ==
    IF total <= 1 THEN [rendered |-> FALSE, dots |-> <<>>]
    ELSE [rendered |-> TRUE,
          dots |-> [index \in 1..total |-> (index - 1 = page)]]

\* a condensed card of any number of pages, no screen mounted
PagesInit ==
    /\ dashboards = MkConfig(1)
    /\ focus = Market
    /\ ui = [i \in Instances |-> Unmounted]
    /\ MarketInitial
    /\ loadPending = FALSE
    /\ stored = NoId
    /\ taps = <<>>
    /\ backResult = "none"
    /\ lateCallback = FALSE
    /\ userExpanded = NoEntry
    /\ prices = <<>>
    /\ priceInfo = NoInfo
    /\ totalPages \in 0..MaxPages
    /\ cardWidth \in CardWidths
    /\ scrollX = 0
    /\ currentPage = 0
    /\ TapsIdle
    /\ LayoutIdle

PagesNext ==
    \E offsetX \in UNION {ScrollOffsets(w, MaxPages) : w \in CardWidths} :
        handleScroll(offsetX)

SpecPages == PagesInit /\ [][PagesNext]_vars

ActiveDots(indicator) ==
    {index \in 0..(Len(indicator.dots) - 1) : indicator.dots[index + 1]}

Distance(a, b) == IF a >= b THEN a - b ELSE b - a

PageIndices == (0 - 2)..(MaxPages + 2)

\* C17: an offset strictly closer to k * pageWidth than to any other multiple
\* of pageWidth gives currentPage k
C17_RoundsToNearest ==
    \A k \in PageIndices :
        (\A j \in PageIndices \ {k} :
            Distance(scrollX, k * cardWidth) < Distance(scrollX, j * cardWidth))
        => currentPage = k

\* past the middle between two pages: rounding down would give the page before
C17_Witness ==
    /\ cardWidth = 5
    /\ scrollX = 8
    /\ currentPage = 2

\* ---- the lifecycle never ends ----------------------------------------------
\* C18: the screen on screen always has a transition to take: while a widget
\* is expanded a back press collapses it, while the overlay collapses its
\* callback leads to Condensed, while condensed a tap expands a widget, and
\* while MarketScreen loads the read settles; so Condensed is reached again
\* from every state and the cycle can repeat
C18_NoTerminalState ==
    \A i \in Instances :
        (i = focus /\ ui[i].mounted /\ \E n \in DOMAIN WidgetsOf(i) : Renders(i, WidgetsOf(i)[n])) =>
            /\ RendersNothing(i) => ENABLED (\E ok \in BOOLEAN : loadLastDashboard(ok))
            /\ Phase(i) \in {"Expanding", "Expanded"} =>
                  ENABLED (BackPress /\ Phase(i)' \in {"Collapsing", "Condensed"})
            /\ Phase(i) = "Collapsing" =>
                  ENABLED (CollapseCallback(i) /\ Phase(i)' = "Condensed")
            /\ (Phase(i) = "Condensed" /\ ~RendersNothing(i)) =>
                  ENABLED (AnExpandTap /\ Phase(i)' \in {"Expanding", "Expanded"})

\* condensed again after a widget was expanded and collapsed by a back press
C18_Witness ==
    /\ HasOverlay(focus)
    /\ backResult = "consumed"
    /\ Phase(focus) = "Condensed"
    /\ ~ui[focus].collapseCb
    /\ ui[focus].lastExpandedId = NoId

\* ---- the collapse callback after a new expansion ---------------------------
\* C19: a collapse callback that runs after a widget was expanded again does
\* not leave the overlay hidden: whenever a widget is expanded, and so after
\* every such callback, the overlay is visible and displays that widget
C19_LateCallbackKeepsOverlay ==
    \A i \in OverlayScreens :
        (ui[i].mounted /\ ui[i].expandedId # NoId) =>
            /\ ui[i].modalVisible
            /\ ui[i].lastExpandedId = ui[i].expandedId
            /\ ~RendersNothing(i) => OverlayCard(i) = ui[i].expandedId

\* the callback of the collapse has run after the new expansion
C19_Witness ==
    /\ lateCallback
    /\ HasOverlay(focus)
    /\ ui[focus].expandedId # NoId
    /\ ~ui[focus].collapseCb
    /\ OverlayCard(focus) = ui[focus].expandedId

\* C20: with no callback of a collapse animation pending, modalVisible is true
\* exactly when a widget is expanded and lastExpandedId equals expandedId
C20_QuiescentAgreement ==
    \A i \in OverlayScreens :
        (ui[i].mounted /\ ~ui[i].collapseCb) =>
            /\ ui[i].modalVisible <=> (ui[i].expandedId # NoId)
            /\ ui[i].lastExpandedId = ui[i].expandedId

\* quiescent and condensed after a collapse whose callback has run
C20_Witness ==
    /\ HasOverlay(focus)
    /\ ~ui[focus].collapseCb
    /\ ~lateCallback
    /\ ui[focus].anim = "none"
    /\ ~ui[focus].modalVisible
    /\ ui[focus].lastExpandedId = NoId
    /\ Len(taps) >= 2
    /\ LastTap.w = LastTap.pre

\* ---- what the overlay displays ----------------------------------------------
\* the widget entry whose card the overlay renders
OverlayEntry(i) ==
    IF OverlayCard(i) # NoId THEN WidgetsOf(i)[displayWidget(i)] ELSE NoEntry

\* C21 as stated: whenever the overlay displays a card, the card is that of
\* the widget entry the user expanded last, also after a dashboard selection
\* during the collapse when the new dashboard reuses the widget's id
C21_OverlayShowsUserExpanded ==
    \A i \in OverlayScreens :
        (i = focus /\ OverlayCard(i) # NoId) => OverlayEntry(i) = userExpanded

\* ---- the writes of the stored preference -----------------------------------
\* C22 as stated: when the last of the writes in flight completes, in
\* whatever order they completed, the stored preference is the id of the
\* dashboard selected on screen
C22_StoredIsSelected ==
    [][\A d \in DashIds :
          (WriteSettles(d, TRUE) /\ pendingWrites' = {}) =>
              stored' = selectedDashboardId']_vars

\* C23: while the read of the stored preference is pending MarketScreen is
\* loading and no dashboard selection has been made, and no dashboard
\* selection happens; so the read never overwrites a selection of the user
C23_ReadBeforeSelection ==
    /\ [](loadPending =>
            /\ isLoading
            /\ pendingWrites = {}
            /\ selectedDashboardId = dashboards[1].id)
    /\ [][ADashboardSelect => (~loadPending /\ ~loadPending')]_vars

\* the read applied the stored dashboard 2, then the user selected dashboard 1
C23_Witness ==
    /\ ui[Market].mounted
    /\ ~loadPending
    /\ stored = 2
    /\ selectedDashboardId = 1
    /\ pendingWrites = {1}

\* ---- the selection names a dashboard ---------------------------------------
\* C24: selectedDashboardId is always the id of a dashboard of the
\* configuration; a read that finds the id of a dashboard that no longer
\* exists leaves the selection as it was
C24_SelectionExists ==
    /\ [](\E n \in DOMAIN dashboards : dashboards[n].id = selectedDashboardId)
    /\ [][((\E ok \in BOOLEAN : loadLastDashboard(ok)) /\ stored = GhostDash) =>
             selectedDashboardId' = selectedDashboardId]_vars

\* the read found the id of a dashboard that is gone; the first dashboard is shown
C24_Witness ==
    /\ ui[Market].mounted
    /\ ~loadPending
    /\ ~isLoading
    /\ stored = GhostDash
    /\ selectedDashboardId = dashboards[1].id
    /\ ListCards(Market) # <<>>

\* ---- the expanded widget belongs to the selected dashboard -----------------
\* C25: in MarketScreen an expanded widget is one of the cards rendered in the
\* list, that is a widget of the selected dashboard that passed validation;
\* a dashboard selection leaves no widget expanded
C25_ExpandedIsListed ==
    /\ [](ui[Market].expandedId # NoId =>
            ui[Market].expandedId \in Range(ListCards(Market)))
    /\ [][ADashboardSelect => ui'[Market].expandedId = NoId]_vars

\* after selecting dashboard 2, its widget 2 is expanded, which the first
\* dashboard does not render
C25_Witness ==
    /\ focus = Market
    /\ selectedDashboardId = 2
    /\ 2 \in pendingWrites
    /\ ui[Market].expandedId = 2
    /\ OverlayCard(Market) = 2
    /\ 2 \notin {e.id : e \in {w \in Range(dashboards[1].widgets) : IsRenderable(w)}}

\* ---- the charts of a short series ------------------------------------------
\* C26 as stated: for a series of fewer than two prices the builder and the
\* render of what it returns throw nothing and divide by nothing that is
\* zero, the chart points and the last-point marker included
C26_ShortSeriesSafe ==
    (priceInfo.version = "built" /\ Len(prices) < 2) =>
        /\ ~(priceInfo.info.divided /\ priceInfo.info.divisor = 0)
        /\ ~priceInfo.chart.threw
        /\ 0 \notin priceInfo.chart.divisors
        /\ ~priceInfo.expanded.chart.threw
        /\ 0 \notin priceInfo.expanded.divisors
        /\ 0 \notin PriceChart(prices).divisors

\* ---- the price change from a first price of zero ---------------------------
\* what toFixed renders of a number that is not finite
NotFinite == {"Infinity", "-Infinity", "NaN"}

\* C27 as stated: for a prices map of at least two entries getPriceChange
\* divides by nothing that is zero and changePercent is a finite number, also
\* when the price at the earliest date is 0; isPositive tells whether the last
\* price is at least the first
C27_FinitePercent ==
    (priceInfo.version = "builder" /\ Len(prices) >= 2) =>
        /\ ~(priceInfo.info.divided /\ priceInfo.info.divisor = 0)
        /\ priceInfo.info.changePercent \notin NotFinite
        /\ priceInfo.info.isPositive = (LastByDate(prices) >= FirstByDate(prices))

\* ---- the two ways of writing handleExpand -----------------------------------
\* WidgetScreen: setExpandedId((current) => (current === id ? null : id))
handleExpandUpdater(current, id) == IF current = id THEN NoId ELSE id

\* One tap on widget w, given to both handlers. The handler of
\* DashboardScreen and MarketScreen compares w with the expandedId of the
\* render that created it; the updater of WidgetScreen is applied to the
\* current state.
TapBoth(w) ==
    /\ closureState' = handleExpand(closureCaptured, w)
    /\ updaterState' = handleExpandUpdater(updaterState, w)
    /\ taps' = PushTap([w |-> w, pre |-> closureState])
    /\ UNCHANGED <<dashboards, ui, focus, marketVars, backResult, lateCallback,
                   userExpanded, prices, priceInfo, totalPages, cardWidth,
                   scrollX, currentPage, closureCaptured, layoutVars>>

\* the screen renders again: a new handleExpand is created, which reads the
\* expandedId of this render
Rerender ==
    /\ closureCaptured # closureState
    /\ closureCaptured' = closureState
    /\ UNCHANGED <<dashboards, ui, focus, marketVars, obsVars, prices, priceInfo,
                   totalPages, cardWidth, scrollX, currentPage, closureState,
                   updaterState, layoutVars>>

\* two screens with nothing expanded, no other screen mounted
TapsInit ==
    /\ dashboards = MkConfig(1)
    /\ focus = Market
    /\ ui = [i \in Instances |-> Unmounted]
    /\ MarketInitial
    /\ loadPending = FALSE
    /\ stored = NoId
    /\ taps = <<>>
    /\ backResult = "none"
    /\ lateCallback = FALSE
    /\ userExpanded = NoEntry
    /\ CardIdle

TapsNext ==
    \/ \E w \in 1..NumWidgets : TapBoth(w)
    \/ Rerender

SpecTaps == TapsInit /\ [][TapsNext]_vars

UnknownRoutes ==
    {i \in Instances :
        /\ i.kind \in {"Dashboard", "DashboardOverlay"}
        /\ i.param # NoId
        /\ \A n \in DOMAIN dashboards : dashboards[n].id # i.param}

\* C29: a DashboardScreen whose dashboardId parameter matches no dashboard
\* finds no dashboard (it does not fall back to the default or the first),
\* renders no card, offers no expand control and never has a widget expanded
C29_UnknownDashboard ==
    \A i \in UnknownRoutes :
        ui[i].mounted =>
            /\ dashboard(i.param) = 0
            /\ RendersNothing(i)
            /\ ListCards(i) = <<>>
            /\ ExpandedCards(i) = <<>>
            /\ OverlayCard(i) = NoId
            /\ Tappable(i) = {}
            /\ ui[i].expandedId = NoId

\* on the screen of an unknown dashboard a back press found nothing to collapse
C29_Witness ==
    /\ focus \in UnknownRoutes
    /\ ui[focus].mounted
    /\ backResult = "passed"
    /\ \E n \in DOMAIN dashboards : dashboards[n].isDefault

\* ---- the overlay registry of ScreenLayout ----------------------------------
\* The contents passed to setOverlay: null, a node that is not null but falsy
\* (false, 0 or ''), and two elements.
Contents == {"null", "falsy", "elementA", "elementB"}

\* !content
Not(content) == content \in {"null", "falsy", "absent"}

\* a setOverlay that replaces the registry by the one entry
setOverlay_ReplaceAll(id, content) ==
    /\ overlays' =
          IF Not(content) THEN [overlays EXCEPT ![id] = "absent"]
          ELSE [other \in OverlayIds |-> IF other = id THEN content ELSE "absent"]
    /\ lastContent' = [lastContent EXCEPT ![id] = content]
    /\ UNCHANGED <<dashboards, ui, focus, marketVars, obsVars, prices, priceInfo,
                   totalPages, cardWidth, scrollX, currentPage, tapVars>>

\* setOverlay(id, content): the updater given to setOverlays, applied to the
\* current registry
setOverlay(id, content) ==
    /\ overlays' =
          IF Not(content)
          THEN (IF Not(overlays[id]) THEN overlays
                ELSE [overlays EXCEPT ![id] = "absent"])
          ELSE IF overlays[id] = content THEN overlays
          ELSE [overlays EXCEPT ![id] = content]
    /\ lastContent' = [lastContent EXCEPT ![id] = content]
    /\ UNCHANGED <<dashboards, ui, focus, marketVars, obsVars, prices, priceInfo,
                   totalPages, cardWidth, scrollX, currentPage, tapVars>>

\* Object.keys(overlays)
OverlayKeys == {id \in OverlayIds : overlays[id] # "absent"}

\* Object.keys(overlays).length > 0 && <View style={styles.overlayHost}>
overlayHost == Cardinality(OverlayKeys) > 0

\* a ScreenLayout on its own, no screen mounted
LayoutInit ==
    /\ dashboards = MkConfig(1)
    /\ focus = Market
    /\ ui = [i \in Instances |-> Unmounted]
    /\ MarketInitial
    /\ loadPending = FALSE
    /\ stored = NoId
    /\ taps = <<>>
    /\ backResult = "none"
    /\ lateCallback = FALSE
    /\ userExpanded = NoEntry
    /\ CardIdle

LayoutNext == \E id \in OverlayIds, content \in Contents : setOverlay(id, content)

SpecLayout == LayoutInit /\ [][LayoutNext]_vars

\* the registry holds exactly the ids whose most recent call carried a content
\* outside removing, each with that content, and the host is rendered exactly
\* when there is such an id
RegistryFollowsCalls(removing) ==
    /\ \A id \in OverlayIds :
          IF lastContent[id] \in removing THEN id \notin OverlayKeys
          ELSE id \in OverlayKeys /\ overlays[id] = lastContent[id]
    /\ overlayHost <=> (\E id \in OverlayIds : lastContent[id] \notin removing)

\* a call for one id changes the entry of no other id
OtherEntriesKept ==
    \A id \in OverlayIds, content \in Contents :
        setOverlay(id, content) =>
            \A other \in OverlayIds \ {id} : overlays'[other] = overlays[other]

\* C30 as stated: the ids in the registry are those whose most recent call
\* carried non-null content
C30_RegistryNonNull ==
    /\ [](RegistryFollowsCalls({"none", "null"}))
    /\ [][OtherEntriesKept]_vars

\* C30, amended: the ids in the registry are those whose most recent call
\* carried truthy content, each mapped to that content: a call with null or
\* with a falsy node removes the entry; a call for one id changes the entry
\* of no other id, and the overlay host is rendered exactly when the registry
\* is not empty
C30_RegistryTruthy ==
    /\ [](RegistryFollowsCalls({"none", "null", "falsy"}))
    /\ [][OtherEntriesKept]_vars

\* one entry was replaced, one removed by a falsy node, one removed by null
C30_Witness ==
    /\ overlays["card-1"] = "elementB"
    /\ lastContent["card-2"] = "falsy"
    /\ lastContent["card-3"] = "null"
    /\ OverlayKeys = {"card-1"}
    /\ overlayHost

====
